---- MODULE Spec2Model ----
(***************************************************************************)
(* Model of kubespawner/slugs.py: validity predicates for Kubernetes       *)
(* object names and label values, the safe-name extractor, the single-name *)
(* hasher, the slug dispatcher and the multi-component joiner.             *)
(*                                                                         *)
(* A Python str is a sequence of code points (integers); a bytes object is *)
(* a sequence of integers 0..255.  The module's functions are pure, so the *)
(* state machine is: Init draws one call (function + arguments), the       *)
(* action of that function applies it and stores what it returned.         *)
(***************************************************************************)
EXTENDS Integers, Sequences, FiniteSets, TLC

VARIABLES pc, op, name, names, is_valid, max_length, result, branch

vars == <<pc, op, name, names, is_valid, max_length, result, branch>>

(***************************************************************************)
(* Bounds of the model                                                     *)
(***************************************************************************)
MaxLen == 4          \* longest enumerated single name
MaxCompLen == 3      \* longest enumerated component of a multi_slug call
MaxNames == 2        \* most components in a multi_slug call
MaxM == 14           \* safe_slug / strip_and_hash max_length ranges over 0..MaxM
MaxMultiM == 18      \* multi_slug max_length ranges over 0..MaxMultiM
LongLen == 64        \* length of the long name (one over the 63 of labels)
BigMax == 80         \* one max_length above the 63-character rules
MaxExtractLen == 5   \* _extract_safe_name max_length ranges over 1..MaxExtractLen

(***************************************************************************)
(* Characters                                                              *)
(***************************************************************************)
CodePoints == 0..255

Newline == 10
Hyphen == 45
Dot == 46
Slash == 47
UpperA == 65
Underscore == 95
LowerA == 97
LetterX == 120
ByteFF == 255

ascii_lowercase == 97..122
ascii_uppercase == 65..90
digits == 48..57

alphanum == ascii_lowercase \cup ascii_uppercase \cup digits
alphanum_lower == ascii_lowercase \cup digits
lower_plus_hyphen == alphanum_lower \cup {Hyphen}

\* str.lower() on one code point of the Latin-1 range
Lower(c) ==
    IF c \in ascii_uppercase THEN c + 32
    ELSE IF c \in 192..222 /\ c # 215 THEN c + 32
    ELSE c

\* the upper-case partner the regex engine tries under IGNORECASE
Upper(c) ==
    IF c \in ascii_lowercase THEN c - 32
    ELSE IF c \in 224..254 /\ c # 247 THEN c - 32
    ELSE c

\* a character class compiled with re.IGNORECASE
IgnoreCase(class) ==
    {c \in CodePoints : c \in class \/ Lower(c) \in class \/ Upper(c) \in class}

\* [a-z0-9\.-]   (the trailing hyphen is a literal)
object_pattern == ascii_lowercase \cup digits \cup {Dot, Hyphen}

\* [a-z0-9\.-_] with IGNORECASE   ("\.-_" is the range from '.' to '_')
label_pattern == IgnoreCase(ascii_lowercase \cup digits \cup (Dot..Underscore))

\* ^[class]+$ : one or more class characters up to the end of the string,
\* where $ also matches just before a final newline
FullMatch(class, t) == Len(t) >= 1 /\ \A i \in 1..Len(t) : t[i] \in class

PatternMatch(class, s) ==
    \/ FullMatch(class, s)
    \/ /\ Len(s) >= 1
       /\ s[Len(s)] = Newline
       /\ FullMatch(class, SubSeq(s, 1, Len(s) - 1))

(***************************************************************************)
(* Validity rule engine and predicates.  An absent (None) start/end set or *)
(* pattern is the empty set and an absent length is 0: the code skips a    *)
(* falsy constraint.                                                       *)
(***************************************************************************)
StartsWith(s, chars) == Len(s) >= 1 /\ s[1] \in chars
EndsWith(s, chars) == Len(s) >= 1 /\ s[Len(s)] \in chars

is_valid_general(s, starts_with, ends_with, pattern, min_length, max_len) ==
    IF min_length # 0 /\ Len(s) < min_length THEN FALSE
    ELSE IF max_len # 0 /\ Len(s) > max_len THEN FALSE
    ELSE IF starts_with # {} /\ ~StartsWith(s, starts_with) THEN FALSE
    ELSE IF ends_with # {} /\ ~EndsWith(s, ends_with) THEN FALSE
    ELSE IF pattern # {} /\ ~PatternMatch(pattern, s) THEN FALSE
    ELSE TRUE

is_valid_object_name(s) ==
    is_valid_general(s, alphanum_lower, alphanum_lower, object_pattern, 1, 255)

is_valid_label(s) ==
    IF s = <<>> THEN TRUE
    ELSE is_valid_general(s, alphanum, alphanum, label_pattern, 0, 63)

is_valid_default(s) ==
    is_valid_general(s, alphanum_lower, alphanum_lower, object_pattern, 1, 63)

Predicates == {"is_valid_default", "is_valid_object_name", "is_valid_label"}

\* calling the predicate passed as safe_slug's is_valid argument
IsValid(p, s) ==
    CASE p = "is_valid_default" -> is_valid_default(s)
      [] p = "is_valid_object_name" -> is_valid_object_name(s)
      [] p = "is_valid_label" -> is_valid_label(s)

(***************************************************************************)
(* String helpers: the str and re operations the code uses                 *)
(***************************************************************************)
\* '--' in s
ContainsDoubleHyphen(s) ==
    \E i \in 1..(Len(s) - 1) : s[i] = Hyphen /\ s[i + 1] = Hyphen

\* s.lower()
LowerStr(s) == [i \in 1..Len(s) |-> Lower(s[i])]

\* s.lstrip("-")
RECURSIVE LStripHyphen(_)
LStripHyphen(s) ==
    IF s # <<>> /\ s[1] = Hyphen THEN LStripHyphen(Tail(s)) ELSE s

\* s.rstrip("-")
RECURSIVE RStripHyphen(_)
RStripHyphen(s) ==
    IF s # <<>> /\ s[Len(s)] = Hyphen
    THEN RStripHyphen(SubSeq(s, 1, Len(s) - 1))
    ELSE s

\* s[:n], with Python's meaning of a negative n
Slice(s, n) ==
    IF n >= 0
    THEN SubSeq(s, 1, IF n < Len(s) THEN n ELSE Len(s))
    ELSE SubSeq(s, 1, IF Len(s) + n > 0 THEN Len(s) + n ELSE 0)

\* faulty variant: the squash step is left out
hyphen_plus_sub_identity(s) == s

\* _hyphen_plus_pattern.sub("-", s): every maximal run of two or more
\* hyphens becomes one hyphen
RECURSIVE hyphen_plus_sub(_)
hyphen_plus_sub(s) ==
    IF Len(s) < 2 THEN s
    ELSE IF s[1] = Hyphen /\ s[2] = Hyphen THEN hyphen_plus_sub(Tail(s))
    ELSE <<s[1]>> \o hyphen_plus_sub(Tail(s))

\* s.encode("utf8") for code points below 256
RECURSIVE EncodeUtf8(_)
EncodeUtf8(s) ==
    IF s = <<>> THEN <<>>
    ELSE (IF s[1] < 128 THEN <<s[1]>>
          ELSE <<192 + (s[1] \div 64), 128 + (s[1] % 64)>>) \o EncodeUtf8(Tail(s))

(***************************************************************************)
(* The digest.  hashlib.sha256 is a library function; what the module uses *)
(* of it is that the digest is a fixed function of the bytes fed to the    *)
(* hasher (update() calls concatenate) and that hexdigest() is lowercase   *)
(* hexadecimal.  It is modelled by a position-weighted checksum of the     *)
(* bytes, printed as eight hex digits.  Collision resistance is not        *)
(* modelled.                                                               *)
(***************************************************************************)
hash_length == 8

DigestInit == 6710886

DigestModulus == 67108864

DigestTerm(bytes, i) == ((bytes[i] + 1) * (7919 * i + 104729)) % 4194304

RECURSIVE DigestSum(_, _, _)
DigestSum(bytes, lo, hi) ==
    IF lo > hi THEN 0
    ELSE IF lo = hi THEN DigestTerm(bytes, lo)
    ELSE DigestSum(bytes, lo, (lo + hi) \div 2)
         + DigestSum(bytes, ((lo + hi) \div 2) + 1, hi)

\* hashlib.sha256(bytes), as a number
Digest(bytes) == (DigestInit + DigestSum(bytes, 1, Len(bytes))) % DigestModulus

HexDigit(v) == IF v < 10 THEN 48 + v ELSE 87 + v

\* hexdigest()[:_hash_length]
HexDigest(d) == [i \in 1..hash_length |-> HexDigit((d \div (8 ^ (i - 1))) % 16)]

HexDigits == digits \cup (97..102)

(***************************************************************************)
(* Results: a returned value, or the ValueError the code raises            *)
(***************************************************************************)
Return(v) == [raised |-> FALSE, value |-> v]
ValueError == [raised |-> TRUE, value |-> <<>>]

(***************************************************************************)
(* _extract_safe_name                                                      *)
(***************************************************************************)
\* faulty variant: the filter also lets '.' through (the object-name class)
filter_safe_keeps_dot(s) ==
    SelectSeq(LowerStr(s), LAMBDA c : c \in object_pattern)

\* ''.join([c for c in name.lower() if c in _lower_plus_hyphen])
filter_safe(s) ==
    SelectSeq(LowerStr(s), LAMBDA c : c \in lower_plus_hyphen)

\* faulty variant: the trailing hyphen left by the truncation is not stripped
extract_safe_name_no_rstrip(nm, max_len) ==
    LET safe_name == Slice(hyphen_plus_sub(LStripHyphen(filter_safe(nm))), max_len)
    IN  IF safe_name = <<>> THEN <<LetterX>> ELSE safe_name

extract_safe_name(nm, max_len) ==
    LET filtered == filter_safe(nm)
        squashed == hyphen_plus_sub(LStripHyphen(filtered))
        safe_name == RStripHyphen(Slice(squashed, max_len))
    IN  IF safe_name = <<>> THEN <<LetterX>> ELSE safe_name

(***************************************************************************)
(* strip_and_hash                                                          *)
(***************************************************************************)
DefaultStripMax == 32

\* faulty variant: the three delimiter characters are not reserved
name_length_no_delimiter(max_len) == max_len - hash_length

name_length(max_len) == max_len - (hash_length + 3)

strip_and_hash(nm, max_len) ==
    IF name_length(max_len) < 1 THEN ValueError
    ELSE LET name_hash == HexDigest(Digest(EncodeUtf8(nm)))
             safe_name == extract_safe_name(nm, name_length(max_len))
         IN  Return(safe_name \o <<Hyphen, Hyphen, Hyphen>> \o name_hash)

(***************************************************************************)
(* safe_slug.  max_length is <<>> for None and <<m>> for the integer m.    *)
(* The record's line is the return statement that produced the result.     *)
(***************************************************************************)
\* max_length or 32
OrDefault(ml, d) == IF ml = <<>> \/ ml[1] = 0 THEN d ELSE ml[1]

Hashed(nm, ml, ln) ==
    strip_and_hash(nm, OrDefault(ml, DefaultStripMax)) @@ [line |-> ln]

\* faulty variant: names containing '--' are not sent to the hasher first
safe_slug_no_double_hyphen_check(nm, p, ml) ==
    IF IsValid(p, nm) /\ (ml = <<>> \/ Len(nm) <= ml[1])
    THEN Return(nm) @@ [line |-> 157]
    ELSE Hashed(nm, ml, 159)

safe_slug(nm, p, ml) ==
    IF ContainsDoubleHyphen(nm) THEN Hashed(nm, ml, 154)
    ELSE IF IsValid(p, nm) /\ (ml = <<>> \/ Len(nm) <= ml[1])
    THEN Return(nm) @@ [line |-> 157]
    ELSE Hashed(nm, ml, 159)

(***************************************************************************)
(* multi_slug                                                              *)
(***************************************************************************)
DefaultMultiMax == 48

\* the bytes fed to the hasher: names[0], then b"\xFF" and the name for
\* each further name
RECURSIVE MultiBytes(_)
MultiBytes(nms) ==
    IF Len(nms) = 1 THEN EncodeUtf8(nms[1])
    ELSE MultiBytes(SubSeq(nms, 1, Len(nms) - 1))
         \o <<ByteFF>> \o EncodeUtf8(nms[Len(nms)])

\* '--'.join(name_slugs)
RECURSIVE JoinDoubleHyphen(_)
JoinDoubleHyphen(slugs) ==
    IF Len(slugs) = 0 THEN <<>>
    ELSE IF Len(slugs) = 1 THEN slugs[1]
    ELSE slugs[1] \o <<Hyphen, Hyphen>> \o JoinDoubleHyphen(Tail(slugs))

\* faulty variant: the two characters of the '--' joiner are not reserved
name_max_length_no_joiner(n, max_len) ==
    (max_len - (hash_length + 1)) \div n

name_max_length(n, max_len) ==
    LET available_chars == max_len - (hash_length + 1)
        per_name == available_chars \div n
    IN  per_name - 2

multi_slug(nms, max_len) ==
    LET hash == HexDigest(Digest(MultiBytes(nms)))
        nml == name_max_length(Len(nms), max_len)
    IN  IF nml < 2 THEN ValueError
        ELSE LET name_slugs == [i \in 1..Len(nms) |-> extract_safe_name(nms[i], nml)]
             IN  Return(JoinDoubleHyphen(name_slugs)
                        \o <<Hyphen, Hyphen, Hyphen>> \o hash)

(***************************************************************************)
(* Inputs                                                                  *)
(***************************************************************************)
BoundedSeqs(S, n) == UNION {[1..k -> S] : k \in 0..n}

\* '-', '.', '/', 'A', 'a'
Chars == {Hyphen, Dot, Slash, UpperA, LowerA}

\* '-', 'A'
CompChars == {Hyphen, UpperA}

\* 'aaa...a', LongLen characters
LongName == [i \in 1..LongLen |-> LowerA]

\* "a--a"
NameDoubleHyphen == <<LowerA, Hyphen, Hyphen, LowerA>>

\* "A---A-"
NameHyphenRun == <<UpperA, Hyphen, Hyphen, Hyphen, UpperA, Hyphen>>

SpecialNames == {LongName, NameDoubleHyphen, NameHyphenRun}

Names == BoundedSeqs(Chars, MaxLen) \cup SpecialNames

Components == BoundedSeqs(CompChars, MaxCompLen) \cup {NameDoubleHyphen, LongName}

NameLists == UNION {[1..k -> Components] : k \in 1..MaxNames}

None == <<>>
Some(m) == <<m>>

SlugMaxLengths == {None} \cup {Some(m) : m \in (0..MaxM) \cup {BigMax}}
StripMaxLengths == {None} \cup {Some(m) : m \in 0..MaxM}
MultiMaxLengths == {None} \cup {Some(m) : m \in 0..MaxMultiM}
ExtractMaxLengths == {Some(m) : m \in 1..MaxExtractLen}

\* the value a defaulted integer parameter has inside the function
Arg(ml, default) == IF ml = None THEN default ELSE ml[1]

(***************************************************************************)
(* The state machine: one call, drawn by Init, applied by its action       *)
(***************************************************************************)
NoResult == [raised |-> FALSE, value |-> <<>>]

Call(o, nm, nms, p, ml) ==
    /\ pc = "ready"
    /\ op = o
    /\ name = nm
    /\ names = nms
    /\ is_valid = p
    /\ max_length = ml
    /\ result = NoResult
    /\ branch = 0

Init ==
    \/ \E o \in {"is_valid_object_name", "is_valid_label", "is_valid_default"} :
         \E nm \in Names : Call(o, nm, <<>>, o, None)
    \/ \E nm \in Names : \E ml \in ExtractMaxLengths :
         Call("extract_safe_name", nm, <<>>, "is_valid_default", ml)
    \/ \E nm \in Names : \E ml \in StripMaxLengths :
         Call("strip_and_hash", nm, <<>>, "is_valid_default", ml)
    \/ \E nm \in Names : \E p \in Predicates : \E ml \in SlugMaxLengths :
         Call("safe_slug", nm, <<>>, p, ml)
    \/ \E nms \in NameLists : \E ml \in MultiMaxLengths :
         Call("multi_slug", <<>>, nms, "is_valid_default", ml)

Finish(r, ln) ==
    /\ pc' = "done"
    /\ result' = r
    /\ branch' = ln
    /\ UNCHANGED <<op, name, names, is_valid, max_length>>

IsValidObjectName ==
    /\ pc = "ready" /\ op = "is_valid_object_name"
    /\ Finish(Return(is_valid_object_name(name)), 0)

IsValidLabel ==
    /\ pc = "ready" /\ op = "is_valid_label"
    /\ Finish(Return(is_valid_label(name)), 0)

IsValidDefault ==
    /\ pc = "ready" /\ op = "is_valid_default"
    /\ Finish(Return(is_valid_default(name)), 0)

ExtractSafeName ==
    /\ pc = "ready" /\ op = "extract_safe_name"
    /\ Finish(Return(extract_safe_name(name, max_length[1])), 0)

StripAndHash ==
    /\ pc = "ready" /\ op = "strip_and_hash"
    /\ Finish(strip_and_hash(name, Arg(max_length, DefaultStripMax)), 0)

SafeSlug ==
    /\ pc = "ready" /\ op = "safe_slug"
    /\ LET r == safe_slug(name, is_valid, max_length)
       IN  Finish([raised |-> r.raised, value |-> r.value], r.line)

MultiSlug ==
    /\ pc = "ready" /\ op = "multi_slug"
    /\ Finish(multi_slug(names, Arg(max_length, DefaultMultiMax)), 0)

Next ==
    \/ IsValidObjectName
    \/ IsValidLabel
    \/ IsValidDefault
    \/ ExtractSafeName
    \/ StripAndHash
    \/ SafeSlug
    \/ MultiSlug

Spec == Init /\ [][Next]_vars

Done(o) == pc = "done" /\ op = o

(***************************************************************************)
(* Vocabulary of the properties                                            *)
(***************************************************************************)
\* the max_length the called function works with
EffectiveMax ==
    IF op = "multi_slug" THEN Arg(max_length, DefaultMultiMax)
    ELSE Arg(max_length, DefaultStripMax)

\* [a-z0-9-]+
IsSlugText(v) == Len(v) >= 1 /\ \A i \in 1..Len(v) : v[i] \in lower_plus_hyphen

\* number of positions where "--" / "---" starts
CountDouble(v) ==
    Cardinality({i \in 1..(Len(v) - 1) : v[i] = Hyphen /\ v[i + 1] = Hyphen})

CountTriple(v) ==
    Cardinality({i \in 1..(Len(v) - 2) :
                    v[i] = Hyphen /\ v[i + 1] = Hyphen /\ v[i + 2] = Hyphen})

\* v ends with "---" followed by eight hex digits
HasHashTail(v) ==
    /\ Len(v) >= hash_length + 3
    /\ \A i \in (Len(v) - hash_length - 2)..(Len(v) - hash_length) : v[i] = Hyphen
    /\ \A i \in (Len(v) - hash_length + 1)..Len(v) : v[i] \in HexDigits

\* what precedes the "---" + hash tail
NamePart(v) == SubSeq(v, 1, Len(v) - (hash_length + 3))

\* the pieces of v between occurrences of "--", read left to right
RECURSIVE SplitDoubleHyphen(_, _)
SplitDoubleHyphen(v, piece) ==
    IF v = <<>> THEN <<piece>>
    ELSE IF Len(v) >= 2 /\ v[1] = Hyphen /\ v[2] = Hyphen
    THEN <<piece>> \o SplitDoubleHyphen(SubSeq(v, 3, Len(v)), <<>>)
    ELSE SplitDoubleHyphen(Tail(v), Append(piece, v[1]))

\* a component as the extractor promises it
IsComponent(c) ==
    /\ IsSlugText(c)
    /\ c[1] # Hyphen
    /\ c[Len(c)] # Hyphen
    /\ ~ContainsDoubleHyphen(c)

\* the label rule as the specification words it
LabelCharset == alphanum \cup {Dot, Hyphen, Underscore}

LabelRule(s) ==
    \/ s = <<>>
    \/ /\ Len(s) <= 63
       /\ s[1] \in alphanum
       /\ s[Len(s)] \in alphanum
       /\ \A i \in 1..Len(s) : s[i] \in LabelCharset

\* lowering and filtering leaves no letter or digit
NothingSafe(s) == \A i \in 1..Len(s) : Lower(s[i]) \notin alphanum_lower

(***************************************************************************)
(* C1: whatever safe_slug returns (max_length absent or >= 12) is accepted *)
(* by the predicate it was called with.                                    *)
(***************************************************************************)
C1_SlugSatisfiesPredicate ==
    (/\ Done("safe_slug")
     /\ (max_length = None \/ max_length[1] >= 12)
     /\ ~result.raised)
    => IsValid(is_valid, result.value)

(***************************************************************************)
(* C2: is_valid_label accepts exactly the empty string and the strings of  *)
(* at most 63 characters that start and end with a letter or digit and     *)
(* consist of letters, digits, '.', '-' and '_'.                           *)
(***************************************************************************)
C2_LabelAcceptsExactlyTheRule ==
    Done("is_valid_label") => (result.value <=> LabelRule(name))

(***************************************************************************)
(* C3: no multi_slug result is also the strip_and_hash result of some      *)
(* single name for the same max_length, component lists of length 1        *)
(* included.                                                               *)
(***************************************************************************)
C3_MultiSlugNeverSingleHashed ==
    (Done("multi_slug") /\ ~result.raised)
    => \A s \in Names : strip_and_hash(s, EffectiveMax) # result

(***************************************************************************)
(* C4 as claimed: every string safe_slug or multi_slug returns is          *)
(* non-empty and matches [a-z0-9-]+, inputs returned unchanged included.   *)
(***************************************************************************)
C4_EveryOutputIsSlugText ==
    ((Done("safe_slug") \/ Done("multi_slug")) /\ ~result.raised)
    => IsSlugText(result.value)

(***************************************************************************)
(* C4 as amended: every string multi_slug returns, and every string        *)
(* safe_slug returns other than an input returned unchanged, is non-empty  *)
(* and matches [a-z0-9-]+; an input returned unchanged is the input and is *)
(* accepted by the predicate.                                              *)
(***************************************************************************)
C4_HashedOutputIsSlugText ==
    /\ ((Done("multi_slug") \/ (Done("safe_slug") /\ branch # 157)) /\ ~result.raised)
       => IsSlugText(result.value)
    /\ (Done("safe_slug") /\ branch = 157)
       => (result.value = name /\ IsValid(is_valid, name))

C4_Witness ==
    /\ Done("safe_slug")
    /\ branch = 159
    /\ ~result.raised
    /\ \E i \in 1..Len(name) : name[i] = Dot
    /\ \E i \in 1..Len(name) : name[i] = UpperA

(***************************************************************************)
(* C5: with an explicit max_length M >= 0, safe_slug raises or returns at  *)
(* most M characters.                                                      *)
(***************************************************************************)
C5_NeverLongerThanMax ==
    (Done("safe_slug") /\ max_length # None)
    => (result.raised \/ Len(result.value) <= max_length[1])

(***************************************************************************)
(* C6: strip_and_hash with M >= 12 returns at most M characters, and so    *)
(* does multi_slug whenever it returns.                                    *)
(***************************************************************************)
C6_HashedSlugsFitBudget ==
    /\ (Done("strip_and_hash") /\ EffectiveMax >= 12)
       => (~result.raised /\ Len(result.value) <= EffectiveMax)
    /\ (Done("multi_slug") /\ ~result.raised)
       => Len(result.value) <= EffectiveMax

C6_Witness ==
    /\ Done("multi_slug")
    /\ ~result.raised
    /\ Len(names) = 2
    /\ \A i \in 1..2 : Len(names[i]) > name_max_length(2, EffectiveMax)
    /\ Len(result.value) = EffectiveMax

(***************************************************************************)
(* C7: strip_and_hash raises exactly when M < 12 and multi_slug exactly    *)
(* when ((M - 9) div n) - 2 < 2, whatever the names contain.               *)
(***************************************************************************)
C7_OnlyLengthBudgetErrors ==
    /\ Done("strip_and_hash") => (result.raised <=> EffectiveMax < 12)
    /\ Done("multi_slug")
       => (result.raised <=> ((EffectiveMax - 9) \div Len(names)) - 2 < 2)

C7_Witness ==
    /\ Done("multi_slug")
    /\ ~result.raised
    /\ names = <<<<>>, <<Hyphen, Hyphen>>>>
    /\ max_length # None

(***************************************************************************)
(* C8: a strip_and_hash result is name---hash with exactly one "---" and   *)
(* no "--" in the name part; a multi_slug result of n components is        *)
(* c1--c2--...--cn---hash, no ci containing "--" or starting or ending     *)
(* with '-', so "---" occurs once and "--" otherwise only as the n-1       *)
(* joiners.                                                                *)
(***************************************************************************)
C8_DelimiterStructure ==
    /\ (Done("strip_and_hash") /\ ~result.raised)
       => /\ HasHashTail(result.value)
          /\ CountTriple(result.value) = 1
          /\ CountDouble(NamePart(result.value)) = 0
    /\ (Done("multi_slug") /\ ~result.raised)
       => /\ HasHashTail(result.value)
          /\ CountTriple(result.value) = 1
          /\ CountDouble(NamePart(result.value)) = Len(names) - 1
          /\ LET cs == SplitDoubleHyphen(NamePart(result.value), <<>>)
             IN  /\ Len(cs) = Len(names)
                 /\ \A i \in 1..Len(cs) : IsComponent(cs[i])

C8_Witness ==
    /\ Done("multi_slug")
    /\ ~result.raised
    /\ Len(names) = 2
    /\ names[1] = NameDoubleHyphen
    /\ ContainsDoubleHyphen(names[2])
    /\ CountDouble(NamePart(result.value)) = 1

(***************************************************************************)
(* C9: safe_slug returns the input unchanged exactly when it contains no   *)
(* "--", the predicate accepts it and max_length is absent or not          *)
(* exceeded; otherwise the result is strip_and_hash(s, max_length or 32).  *)
(***************************************************************************)
C9_DispatchRule ==
    Done("safe_slug")
    => LET passes == /\ ~ContainsDoubleHyphen(name)
                     /\ IsValid(is_valid, name)
                     /\ (max_length = None \/ Len(name) <= max_length[1])
           limit == IF max_length = None \/ max_length[1] = 0
                    THEN 32 ELSE max_length[1]
       IN  /\ (branch = 157) <=> passes
           /\ passes => result = Return(name)
           /\ ~passes => result = strip_and_hash(name, limit)

C9_Witness ==
    /\ Done("safe_slug")
    /\ ContainsDoubleHyphen(name)
    /\ IsValid(is_valid, name)
    /\ max_length = None
    /\ result.value # name

(***************************************************************************)
(* C10: for max_length >= 1, _extract_safe_name returns a non-empty string *)
(* of at most max_length characters over [a-z0-9-] that neither starts nor *)
(* ends with '-' and has no "--"; it is "x" when nothing safe is left.     *)
(***************************************************************************)
C10_ExtractSafeName ==
    Done("extract_safe_name")
    => /\ IsComponent(result.value)
       /\ Len(result.value) <= max_length[1]
       /\ NothingSafe(name) => result.value = <<LetterX>>

C10_Witness ==
    /\ Done("extract_safe_name")
    /\ name = <<Hyphen, Dot, Hyphen>>
    /\ result.value = <<LetterX>>

====
